---- MODULE Spec2Model ----
(***************************************************************************)
(* Streamed-audio-to-container pipeline of generate_audio.py:               *)
(* parse_audio_mime_type, convert_to_wav, save_binary_file and the          *)
(* fragment loop of generate.                                               *)
(*                                                                          *)
(* Text (str) values are sequences of one-character strings; binary (bytes) *)
(* values are sequences of integers 0..255.                                 *)
(***************************************************************************)
EXTENDS Integers, Sequences, FiniteSets

\* ------------------------------------------------------------------ str helpers

Uppers == <<"A", "B", "C", "D", "E", "F", "G", "H", "I", "J", "K", "L", "M",
            "N", "O", "P", "Q", "R", "S", "T", "U", "V", "W", "X", "Y", "Z">>

Lowers == <<"a", "b", "c", "d", "e", "f", "g", "h", "i", "j", "k", "l", "m",
            "n", "o", "p", "q", "r", "s", "t", "u", "v", "w", "x", "y", "z">>

Digits == <<"0", "1", "2", "3", "4", "5", "6", "7", "8", "9">>

\* str.lower() on one character
LowerChar(c) ==
    IF \E i \in 1..Len(Uppers) : Uppers[i] = c
    THEN Lowers[CHOOSE i \in 1..Len(Uppers) : Uppers[i] = c]
    ELSE c

\* str.lower()
Lower(s) == [i \in 1..Len(s) |-> LowerChar(s[i])]

\* the characters str.strip() and int() treat as whitespace
IsSpace(c) == c \in {" ", "\t", "\n", "\r"}

IsDigit(c) == \E i \in 1..Len(Digits) : Digits[i] = c

DigitVal(c) == (CHOOSE i \in 1..Len(Digits) : Digits[i] = c) - 1

\* str.strip()
Strip(s) ==
    LET keep == {i \in 1..Len(s) : ~IsSpace(s[i])}
    IN  IF keep = {} THEN <<>>
        ELSE LET lo == CHOOSE i \in keep : \A j \in keep : i <= j
                 hi == CHOOSE i \in keep : \A j \in keep : j <= i
             IN  SubSeq(s, lo, hi)

\* str.startswith(p)
StartsWith(s, p) == Len(s) >= Len(p) /\ SubSeq(s, 1, Len(p)) = p

\* index of the first occurrence of the character c in s, 0 when there is none
FirstIndex(s, c) ==
    IF \E i \in 1..Len(s) : s[i] = c
    THEN CHOOSE i \in 1..Len(s) : s[i] = c /\ \A j \in 1..(i - 1) : s[j] # c
    ELSE 0

\* str.split(c): the pieces of s between the occurrences of the character c
RECURSIVE Split(_, _)
Split(s, c) ==
    LET i == FirstIndex(s, c)
    IN  IF i = 0 THEN <<s>>
        ELSE <<SubSeq(s, 1, i - 1)>> \o Split(SubSeq(s, i + 1, Len(s)), c)

\* str.split(c, 1): at most one cut, at the first occurrence of c
SplitOnce(s, c) ==
    LET i == FirstIndex(s, c)
    IN  IF i = 0 THEN <<s>>
        ELSE <<SubSeq(s, 1, i - 1), SubSeq(s, i + 1, Len(s))>>

\* --------------------------------------------------------------- Python int
\* Python integers are unbounded: an int is [neg, mag], mag its magnitude in
\* base-256 digits, least significant first, without leading zero digits.

Base == 256

RECURSIVE Trim(_)
Trim(m) ==
    IF m # <<>> /\ m[Len(m)] = 0 THEN Trim(SubSeq(m, 1, Len(m) - 1)) ELSE m

RECURSIVE MagOf(_)
MagOf(n) == IF n = 0 THEN <<>> ELSE <<n % Base>> \o MagOf(n \div Base)

\* the int with the value of the small natural number n
IntOf(n) == [neg |-> FALSE, mag |-> MagOf(n)]

MkInt(neg, mag) ==
    LET m == Trim(mag) IN [neg |-> neg /\ m # <<>>, mag |-> m]

\* m * k + c, for a magnitude m and small naturals k and c
RECURSIVE MagMulAdd(_, _, _)
MagMulAdd(m, k, c) ==
    IF m = <<>> THEN MagOf(c)
    ELSE LET v == m[1] * k + c
         IN  <<v % Base>> \o MagMulAdd(Tail(m), k, v \div Base)

\* a + b + c, for magnitudes a and b and a carry c
RECURSIVE MagAdd(_, _, _)
MagAdd(a, b, c) ==
    IF a = <<>> /\ b = <<>> THEN MagOf(c)
    ELSE LET x == IF a = <<>> THEN 0 ELSE a[1]
             y == IF b = <<>> THEN 0 ELSE b[1]
             v == x + y + c
         IN  <<v % Base>> \o MagAdd(IF a = <<>> THEN a ELSE Tail(a),
                                    IF b = <<>> THEN b ELSE Tail(b), v \div Base)

RECURSIVE MagMul(_, _)
MagMul(a, b) ==
    IF b = <<>> THEN <<>>
    ELSE MagAdd(MagMulAdd(a, b[1], 0), <<0>> \o MagMul(a, Tail(b)), 0)

\* the digits of m \div k from digit i downwards, r the running remainder
RECURSIVE MagDivFrom(_, _, _, _)
MagDivFrom(m, k, i, r) ==
    IF i = 0 THEN <<>>
    ELSE LET v == r * Base + m[i]
         IN  MagDivFrom(m, k, i - 1, v % k) \o <<v \div k>>

\* m \div k for a small positive k
MagDiv(m, k) == Trim(MagDivFrom(m, k, Len(m), 0))

\* a * b
IntMul(a, b) == MkInt(a.neg # b.neg, MagMul(a.mag, b.mag))

\* a // k for a small positive k: Python rounds towards minus infinity
IntFloorDiv(a, k) ==
    IF a.neg THEN MkInt(TRUE, MagDiv(MagAdd(a.mag, MagOf(k - 1), 0), k))
    ELSE MkInt(FALSE, MagDiv(a.mag, k))

\* the magnitude written by a string of decimal digits and inner underscores
RECURSIVE DecValue(_, _)
DecValue(s, acc) ==
    IF s = <<>> THEN acc
    ELSE IF s[1] = "_" THEN DecValue(Tail(s), acc)
    ELSE DecValue(Tail(s), MagMulAdd(acc, 10, DigitVal(s[1])))

\* the body int() accepts after the sign: digits, single underscores between digits
IsDecBody(s) ==
    /\ Len(s) >= 1
    /\ \A i \in 1..Len(s) : IsDigit(s[i]) \/ s[i] = "_"
    /\ IsDigit(s[1]) /\ IsDigit(s[Len(s)])
    /\ \A i \in 1..(Len(s) - 1) : ~(s[i] = "_" /\ s[i + 1] = "_")

\* int(s): [ok |-> TRUE, val |-> n], or ok = FALSE for ValueError
PyInt(s) ==
    LET t    == Strip(s)
        sgn  == Len(t) >= 1 /\ t[1] \in {"+", "-"}
        body == IF sgn THEN Tail(t) ELSE t
    IN  IF IsDecBody(body)
        THEN [ok |-> TRUE, val |-> MkInt(sgn /\ t[1] = "-", DecValue(body, <<>>))]
        ELSE [ok |-> FALSE, val |-> IntOf(0)]

\* str(n) for n >= 0: the decimal digits of n
RECURSIVE DecStr(_)
DecStr(n) ==
    IF n < 10 THEN <<Digits[n + 1]>>
    ELSE DecStr(n \div 10) \o <<Digits[(n % 10) + 1]>>

\* ------------------------------------------------------- parse_audio_mime_type

DefaultBits == 16

DefaultRate == 24000

RatePrefix == <<"r", "a", "t", "e", "=">>

AudioLPrefix == <<"a", "u", "d", "i", "o", "/", "L">>

\* mutant: the except clauses catch IndexError alone
CaughtIndexErrorOnly(exc) == exc = "IndexError"

\* lines 236 and 242: except (ValueError, IndexError)
Caught(exc) == exc \in {"ValueError", "IndexError"}

\* int(s) inside a try block: the value, or the ValueError it raises
IntOrValueError(r) == [exc |-> IF r.ok THEN "none" ELSE "ValueError", val |-> r.val]

\* the statement of a try block, int(pieces[1]) for pieces = param.split(sep, 1):
\* the value, or the exception it raises
TryInt(pieces) ==
    IF Len(pieces) < 2 THEN [exc |-> "IndexError", val |-> IntOf(0)]
    ELSE IntOrValueError(PyInt(pieces[2]))

\* mutant: a rate once set is kept, the first rate of the string wins
TryRateFirstWins(p, r) ==
    IF r.exc = "none"
    THEN IF p.rate = IntOf(DefaultRate) THEN [p EXCEPT !.rate = r.val] ELSE p
    ELSE IF Caught(r.exc) THEN p
    ELSE [p EXCEPT !.raised = TRUE]

\* mutant: a malformed rate rejects the whole string, both fields fall back
TryRateRejectsAll(p, r) ==
    IF r.exc = "none" THEN [p EXCEPT !.rate = r.val]
    ELSE IF Caught(r.exc)
    THEN [p EXCEPT !.rate = IntOf(DefaultRate), !.bits_per_sample = IntOf(DefaultBits)]
    ELSE [p EXCEPT !.raised = TRUE]

\* mutant: a malformed rate sets the rate back to the default
TryRateResets(p, r) ==
    IF r.exc = "none" THEN [p EXCEPT !.rate = r.val]
    ELSE IF Caught(r.exc) THEN [p EXCEPT !.rate = IntOf(DefaultRate)]
    ELSE [p EXCEPT !.raised = TRUE]

\* lines 233 to 238: rate = int(...), except (ValueError, IndexError): pass
TryRate(p, r) ==
    IF r.exc = "none" THEN [p EXCEPT !.rate = r.val]
    ELSE IF Caught(r.exc) THEN p
    ELSE [p EXCEPT !.raised = TRUE]

\* mutant: bits_per_sample once set is kept, the first audio/L of the string wins
TryBitsFirstWins(p, r) ==
    IF r.exc = "none"
    THEN IF p.bits_per_sample = IntOf(DefaultBits)
         THEN [p EXCEPT !.bits_per_sample = r.val] ELSE p
    ELSE IF Caught(r.exc) THEN p
    ELSE [p EXCEPT !.raised = TRUE]

\* mutant: a malformed audio/L sets bits_per_sample back to the default
TryBitsResets(p, r) ==
    IF r.exc = "none" THEN [p EXCEPT !.bits_per_sample = r.val]
    ELSE IF Caught(r.exc) THEN [p EXCEPT !.bits_per_sample = IntOf(DefaultBits)]
    ELSE [p EXCEPT !.raised = TRUE]

\* lines 240 to 243: bits_per_sample = int(...), except (ValueError, IndexError): pass
TryBits(p, r) ==
    IF r.exc = "none" THEN [p EXCEPT !.bits_per_sample = r.val]
    ELSE IF Caught(r.exc) THEN p
    ELSE [p EXCEPT !.raised = TRUE]

\* lines 232 to 243 for the stripped parameter param
ParseStripped(p, param) ==
    IF p.raised THEN p
    ELSE IF StartsWith(Lower(param), RatePrefix)
    THEN TryRate(p, TryInt(SplitOnce(param, "=")))
    ELSE IF StartsWith(param, AudioLPrefix)
    THEN TryBits(p, TryInt(SplitOnce(param, "L")))
    ELSE p

\* one iteration of the loop over the parameters: p holds the values so far, and
\* p.raised tells that an exception has left the loop
ParseParam(p, raw) == ParseStripped(p, Strip(raw))

RECURSIVE ParseParams(_, _)
ParseParams(p, parts) ==
    IF parts = <<>> THEN p
    ELSE ParseParams(ParseParam(p, Head(parts)), Tail(parts))

\* lines 225 to 243: the defaults, then the loop over mime_type.split(";")
ParseLoop(mime_type) ==
    ParseParams([bits_per_sample |-> IntOf(DefaultBits), rate |-> IntOf(DefaultRate),
                 raised |-> FALSE],
                Split(mime_type, ";"))

\* an exception leaves parse_audio_mime_type
parse_raises(mime_type) == ParseLoop(mime_type).raised

\* line 245: {"bits_per_sample": bits_per_sample, "rate": rate}
ReturnedDict(r) == [bits_per_sample |-> r.bits_per_sample, rate |-> r.rate]

\* lines 213 to 245: the dictionary parse_audio_mime_type returns
parse_audio_mime_type(mime_type) == ReturnedDict(ParseLoop(mime_type))

\* ------------------------------------------------------------- convert_to_wav

\* struct.pack "<H" and "<I" write unsigned values of 2 and 4 bytes
HBytes == 2

IBytes == 4

\* struct.pack accepts v in an unsigned field of w bytes (else struct.error)
Fits(v, w) == ~v.neg /\ Len(v.mag) <= w

\* the w little-endian bytes of a value that fits
LE(v, w) == [i \in 1..w |-> IF i <= Len(v.mag) THEN v.mag[i] ELSE 0]

\* struct.calcsize("<4sI4s4sIHHIIHH4sI")
HeaderLen == 44

RIFF == <<82, 73, 70, 70>>

WAVE == <<87, 65, 86, 69>>

FMT == <<102, 109, 116, 32>>

DATA == <<100, 97, 116, 97>>

\* mutant: chunk_size is the size of the whole file
WavFieldsWholeFile(audio_data, mime_type) ==
    LET parameters       == parse_audio_mime_type(mime_type)
        bytes_per_sample == IntFloorDiv(parameters.bits_per_sample, 8)
    IN  [chunk_size      |-> IntOf(HeaderLen + Len(audio_data)),
         num_channels    |-> IntOf(1),
         sample_rate     |-> parameters.rate,
         byte_rate       |-> IntMul(parameters.rate, bytes_per_sample),
         block_align     |-> bytes_per_sample,
         bits_per_sample |-> parameters.bits_per_sample,
         data_size       |-> IntOf(Len(audio_data)),
         raised          |-> parse_raises(mime_type)]

\* mutant: bytes_per_sample is rounded up
WavFieldsRoundsUp(audio_data, mime_type) ==
    LET parameters       == parse_audio_mime_type(mime_type)
        bytes_per_sample ==
            IntFloorDiv(MkInt(parameters.bits_per_sample.neg,
                              MagAdd(parameters.bits_per_sample.mag, MagOf(7), 0)), 8)
    IN  [chunk_size      |-> IntOf(36 + Len(audio_data)),
         num_channels    |-> IntOf(1),
         sample_rate     |-> parameters.rate,
         byte_rate       |-> IntMul(parameters.rate, bytes_per_sample),
         block_align     |-> bytes_per_sample,
         bits_per_sample |-> parameters.bits_per_sample,
         data_size       |-> IntOf(Len(audio_data)),
         raised          |-> parse_raises(mime_type)]

\* line 188: bytes_per_sample = bits_per_sample // 8
BytesPerSample(bits_per_sample) == IntFloorDiv(bits_per_sample, 8)

\* lines 186 and 189: block_align = num_channels * bytes_per_sample, num_channels = 1
BlockAlign(bits_per_sample) == IntMul(IntOf(1), BytesPerSample(bits_per_sample))

\* lines 184 to 191 for data_size = len(audio_data) and the outcome r of line 183
WavFieldsOf(data_size, r) ==
    [chunk_size      |-> IntOf(36 + data_size),
     num_channels    |-> IntOf(1),
     sample_rate     |-> r.rate,
     byte_rate       |-> IntMul(r.rate, BlockAlign(r.bits_per_sample)),
     block_align     |-> BlockAlign(r.bits_per_sample),
     bits_per_sample |-> r.bits_per_sample,
     data_size       |-> IntOf(data_size),
     raised          |-> r.raised]

\* the values convert_to_wav computes and hands to struct.pack; raised tells that
\* line 183 raised and nothing was computed
WavFields(audio_data, mime_type) == WavFieldsOf(Len(audio_data), ParseLoop(mime_type))

\* struct.pack raises struct.error unless every value fits its unsigned field
PackFits(f) ==
    /\ Fits(f.chunk_size, IBytes)
    /\ Fits(f.num_channels, HBytes)
    /\ Fits(f.sample_rate, IBytes)
    /\ Fits(f.byte_rate, IBytes)
    /\ Fits(f.block_align, HBytes)
    /\ Fits(f.bits_per_sample, HBytes)
    /\ Fits(f.data_size, IBytes)

\* struct.pack("<4sI4s4sIHHIIHH4sI", ...)
PackHeader(f) ==
    RIFF \o LE(f.chunk_size, IBytes) \o WAVE \o FMT \o LE(IntOf(16), IBytes)
         \o LE(IntOf(1), HBytes) \o LE(f.num_channels, HBytes)
         \o LE(f.sample_rate, IBytes) \o LE(f.byte_rate, IBytes)
         \o LE(f.block_align, HBytes) \o LE(f.bits_per_sample, HBytes)
         \o DATA \o LE(f.data_size, IBytes)

\* mutant: the header alone is returned
convert_to_wav_header_only(audio_data, mime_type) ==
    LET f == WavFields(audio_data, mime_type)
    IN  IF ~f.raised /\ PackFits(f)
        THEN [ok |-> TRUE, bytes |-> PackHeader(f)]
        ELSE [ok |-> FALSE, bytes |-> <<>>]

\* mutant: the data stands before the header
convert_to_wav_data_first(audio_data, mime_type) ==
    LET f == WavFields(audio_data, mime_type)
    IN  IF ~f.raised /\ PackFits(f)
        THEN [ok |-> TRUE, bytes |-> audio_data \o PackHeader(f)]
        ELSE [ok |-> FALSE, bytes |-> <<>>]

\* convert_to_wav: [ok |-> TRUE, bytes |-> header + audio_data], or ok = FALSE
\* when line 183 or struct.pack raises
convert_to_wav(audio_data, mime_type) ==
    LET f == WavFields(audio_data, mime_type)
    IN  IF ~f.raised /\ PackFits(f)
        THEN [ok |-> TRUE, bytes |-> PackHeader(f) \o audio_data]
        ELSE [ok |-> FALSE, bytes |-> <<>>]

\* ------------------------------------------------------------------ the stream

\* the most chunks the response streams of one run deliver
MaxFrags == 3

NoPart == [has_inline |-> FALSE, data |-> <<>>, has_mime |-> FALSE,
           mime_type |-> <<>>, text |-> <<>>]

\* a part carrying text only
TextPart(t) == [NoPart EXCEPT !.text = t]

\* a part whose inline_data has the bytes d and the MIME type m
AudioPart(d, m) ==
    [NoPart EXCEPT !.has_inline = TRUE, !.data = d, !.has_mime = TRUE, !.mime_type = m]

\* a part whose inline_data has the bytes d and mime_type None
AudioPartNoMime(d) == [NoPart EXCEPT !.has_inline = TRUE, !.data = d]

\* a chunk whose candidates[0].content.parts is the list ps
Chunk(ps) == [candidates |-> "list", has_parts |-> TRUE, parts |-> ps]

MimeL16 == <<"a", "u", "d", "i", "o", "/", "L", "1", "6", ";", "r", "a", "t", "e", "=", "1", "6", "0", "0", "0">>

MimeMpeg == <<"a", "u", "d", "i", "o", "/", "m", "p", "e", "g">>

MimeXWavUpper == <<"A", "U", "D", "I", "O", "/", "X", "-", "W", "A", "V">>

MimeNegRate == <<"a", "u", "d", "i", "o", "/", "L", "1", "6", ";", "r", "a", "t", "e", "=", "-", "1">>

MimeEmpty == <<>>

Hi == <<"h", "i">>

\* the chunks the response stream may deliver
Chunks ==
    { [candidates |-> "None", has_parts |-> FALSE, parts |-> <<>>],
      [candidates |-> "list", has_parts |-> FALSE, parts |-> <<>>],
      [candidates |-> "empty", has_parts |-> FALSE, parts |-> <<>>],
      Chunk(<<>>),
      Chunk(<<NoPart>>),
      Chunk(<<TextPart(Hi)>>),
      Chunk(<<AudioPart(<<>>, MimeL16)>>),
      Chunk(<<AudioPart(<<1>>, MimeL16)>>),
      Chunk(<<AudioPart(<<2, 3>>, MimeMpeg)>>),
      Chunk(<<AudioPart(<<4>>, MimeXWavUpper)>>),
      Chunk(<<AudioPart(<<5, 6>>, MimeEmpty)>>),
      Chunk(<<AudioPart(<<7>>, MimeNegRate)>>),
      Chunk(<<AudioPartNoMime(<<8>>)>>),
      Chunk(<<AudioPart(<<9>>, MimeL16), TextPart(Hi)>>),
      Chunk(<<TextPart(Hi), AudioPart(<<9>>, MimeL16)>>) }

\* the values of the GEMINI_API_KEY environment variable: unset or empty, or set
ApiKeys == {<<>>, <<"k", "e", "y", "1">>}

\* chunk.text: the text of the parts, concatenated
RECURSIVE PartsText(_)
PartsText(ps) == IF ps = <<>> THEN <<>> ELSE Head(ps).text \o PartsText(Tail(ps))

\* mimetypes.guess_extension: the types of the table, in lower case
Mp3Type == <<"a", "u", "d", "i", "o", "/", "m", "p", "e", "g">>

XWavType == <<"a", "u", "d", "i", "o", "/", "x", "-", "w", "a", "v">>

DotMp3 == <<".", "m", "p", "3">>

DotWav == <<".", "w", "a", "v">>

\* mimetypes.guess_extension(type): [found, ext]; found = FALSE stands for None
guess_extension(type) ==
    LET key == Lower(type)
    IN  IF key = Mp3Type THEN [found |-> TRUE, ext |-> DotMp3]
        ELSE IF key = XWavType THEN [found |-> TRUE, ext |-> DotWav]
        ELSE [found |-> FALSE, ext |-> <<>>]

BaseName == <<"s", "e", "t", "s", "w", "a", "n", "a", "_", "m", "e", "d", "i", "c", "a", "l", "_", "d", "i", "a", "l", "o", "g", "u", "e", "_", "p", "a", "r", "t", "_">>

\* mutant: the name is built without the index
FileNameWithoutIndex(index) == BaseName \o DecStr(0)

\* f"setswana_medical_dialogue_part_{file_index}"
FileNameFor(index) == BaseName \o DecStr(index)

\* ------------------------------------------------------------------ the state

VARIABLES
    api_key,        \* os.environ.get("GEMINI_API_KEY"), <<>> when unset or empty
    pc,             \* the position of generate
    pulled,         \* the chunks the loop has pulled from the stream, in order
    chunk_count,    \* generate's chunk_count
    file_index,     \* generate's file_index
    file_name,      \* generate's file_name
    file_extension, \* generate's file_extension
    data_buffer,    \* generate's data_buffer
    handed,         \* the save_binary_file calls: [name, data, src], in order
    converted,      \* the chunk numbers convert_to_wav was called for
    disk,           \* the files written: name -> content
    writes,         \* the f.write calls: [name, data, ok], in order
    handles,        \* the names of the files with an open handle
    out,            \* what was printed, in order: [kind, n, s]
    mime_arg,       \* the argument of a call of parse_audio_mime_type on its own
    parse_pc,       \* the position of that call: "idle", "call", "returned", "raised"
    parse_result,   \* the dictionary that call returned
    parse_log,      \* the calls of it that have returned: [arg, result], in order
    wav_data,       \* the audio_data of a call of convert_to_wav on its own
    wav_mime,       \* the mime_type of that call
    wav_pc,         \* the position of that call: "idle", "call", "returned", "raised"
    wav_result      \* the bytes that call returned

\* the variables of a call of parse_audio_mime_type on its own
parse_vars == <<mime_arg, parse_pc, parse_result, parse_log>>

\* the variables of a call of convert_to_wav on its own
wav_vars == <<wav_data, wav_mime, wav_pc, wav_result>>

vars == <<api_key, pc, pulled, chunk_count, file_index, file_name, file_extension,
          data_buffer, handed, converted, disk, writes, handles, out, parse_vars, wav_vars>>

\* the chunk the loop body is processing
chunk == pulled[Len(pulled)]

Line(kind, n, s) == [kind |-> kind, n |-> n, s |-> s]

Say(l) == out' = Append(out, l)

\* no dictionary has been returned
NoResult == [bits_per_sample |-> IntOf(0), rate |-> IntOf(0)]

Init ==
    /\ api_key \in ApiKeys
    /\ pc = "check_key"
    /\ pulled = <<>>
    /\ chunk_count = 0
    /\ file_index = 0
    /\ file_name = <<>>
    /\ file_extension = <<>>
    /\ data_buffer = <<>>
    /\ handed = <<>>
    /\ converted = {}
    /\ disk = <<>>
    /\ writes = <<>>
    /\ handles = {}
    /\ out = <<>>
    /\ mime_arg = <<>>
    /\ parse_pc = "idle"
    /\ parse_result = NoResult
    /\ parse_log = <<>>
    /\ wav_data = <<>>
    /\ wav_mime = <<>>
    /\ wav_pc = "idle"
    /\ wav_result = <<>>

\* ---------------------------------------------------------------- generate

\* mutant: the key is not looked at
KeyMissingNever(k) == FALSE

\* line 23: not api_key, for a key that is unset (None) or empty
KeyMissing(k) == k = <<>>

\* lines 22 to 26: no API key, generate returns before the request
NoApiKey ==
    /\ pc = "check_key"
    /\ KeyMissing(api_key)
    /\ pc' = "returned"
    /\ Say(Line("no_api_key", 0, <<>>))
    /\ UNCHANGED <<parse_vars, wav_vars, api_key, pulled, chunk_count, file_index, file_name, file_extension,
                   data_buffer, handed, converted, disk, writes, handles>>

\* mutant: the index is not set anew, the value of the call before lives on
InitialIndexKept == file_index

\* line 125: file_index = 0
InitialIndex == 0

\* lines 28 to 126: the request is sent, file_index = 0 and chunk_count = 0
StartRequest ==
    /\ pc = "check_key"
    /\ ~KeyMissing(api_key)
    /\ pc' = "loop"
    /\ file_index' = InitialIndex
    /\ chunk_count' = 0
    /\ Say(Line("sending", 0, <<>>))
    /\ UNCHANGED <<parse_vars, wav_vars, api_key, pulled, file_name, file_extension, data_buffer, handed,
                   converted, disk, writes, handles>>

\* mutant: the next chunk is asked for while the file of the last one is not closed
AtLoopHeadOrClosing == pc \in {"loop", "close"}

\* line 128: the for loop asks the stream for a chunk only at the head of the loop,
\* after the body has run to its end for the chunk before
AtLoopHead == pc = "loop"

\* the chunks received so far, as printed by line 134
Received == Cardinality({i \in 1..Len(out) : out[i].kind = "received"})

\* lines 128 to 134: the for loop pulls the next chunk of the stream
Pull ==
    /\ AtLoopHead
    /\ Received < MaxFrags
    /\ \E c \in Chunks : pulled' = Append(pulled, c)
    /\ chunk_count' = chunk_count + 1
    /\ pc' = "inspect"
    /\ Say(Line("received", chunk_count + 1, <<>>))
    /\ UNCHANGED <<parse_vars, wav_vars, api_key, file_index, file_name, file_extension, data_buffer, handed,
                   converted, disk, writes, handles>>

\* lines 136 to 142: candidates, content or parts is None: continue
NoContent ==
    /\ pc = "inspect"
    /\ chunk.candidates = "None" \/ (chunk.candidates = "list" /\ ~chunk.has_parts)
    /\ pc' = "loop"
    /\ Say(Line("no_content", chunk_count, <<>>))
    /\ UNCHANGED <<parse_vars, wav_vars, api_key, pulled, chunk_count, file_index, file_name, file_extension,
                   data_buffer, handed, converted, disk, writes, handles>>

\* line 138: candidates is an empty list, candidates[0] raises IndexError
\* line 144: parts is an empty list, parts[0] raises IndexError
BadChunk ==
    /\ pc = "inspect"
    /\ chunk.candidates = "empty" \/ (chunk.candidates = "list" /\ chunk.has_parts
                                      /\ chunk.parts = <<>>)
    /\ pc' = "except"
    /\ UNCHANGED <<parse_vars, wav_vars, api_key, pulled, chunk_count, file_index, file_name, file_extension,
                   data_buffer, handed, converted, disk, writes, handles, out>>

\* mutant: inline_data alone decides, its data is not looked at
IsAudioAnyInline(c) ==
    /\ c.candidates = "list" /\ c.has_parts /\ c.parts # <<>>
    /\ c.parts[1].has_inline

\* mutant: any part with inline data makes the chunk an audio chunk
IsAudioAnyPart(c) ==
    /\ c.candidates = "list" /\ c.has_parts /\ c.parts # <<>>
    /\ \E j \in 1..Len(c.parts) : c.parts[j].has_inline /\ c.parts[j].data # <<>>

\* line 144: parts[0].inline_data and parts[0].inline_data.data
IsAudio(c) ==
    /\ c.candidates = "list" /\ c.has_parts /\ c.parts # <<>>
    /\ c.parts[1].has_inline /\ c.parts[1].data # <<>>

\* the chunk reaches line 144 and parts[0] exists
HasFirstPart(c) == c.candidates = "list" /\ c.has_parts /\ c.parts # <<>>

\* mutant: the index is moved on by two
NextIndexSkips(i) == i + 2

\* mutant: the index is not moved on
NextIndexStuck(i) == i

\* file_index += 1
NextIndex(i) == i + 1

\* lines 144 to 149: an audio chunk takes the name of the index, the index moves on
TakeAudio ==
    /\ pc = "inspect"
    /\ IsAudio(chunk)
    /\ file_name' = FileNameFor(file_index)
    /\ file_index' = NextIndex(file_index)
    /\ data_buffer' = chunk.parts[1].data
    /\ pc' = "guess"
    /\ Say(Line("audio", Len(chunk.parts[1].data), chunk.parts[1].mime_type))
    /\ UNCHANGED <<parse_vars, wav_vars, api_key, pulled, chunk_count, file_extension, handed, converted,
                   disk, writes, handles>>

\* lines 156 to 160: no audio in parts[0]: the text is printed, or "no audio or text"
TextOrNothing ==
    /\ pc = "inspect"
    /\ HasFirstPart(chunk) /\ ~IsAudio(chunk)
    /\ IF PartsText(chunk.parts) # <<>>
       THEN Say(Line("text", chunk_count, PartsText(chunk.parts)))
       ELSE Say(Line("no_audio_or_text", chunk_count, <<>>))
    /\ pc' = "loop"
    /\ UNCHANGED <<parse_vars, wav_vars, api_key, pulled, chunk_count, file_index, file_name, file_extension,
                   data_buffer, handed, converted, disk, writes, handles>>

\* line 151, mime_type is None: guess_extension raises AttributeError
GuessRaises ==
    /\ pc = "guess"
    /\ ~chunk.parts[1].has_mime
    /\ pc' = "except"
    /\ UNCHANGED <<parse_vars, wav_vars, api_key, pulled, chunk_count, file_index, file_name, file_extension,
                   data_buffer, handed, converted, disk, writes, handles, out>>

\* mutant: every audio chunk is converted
NeedsWavAlways(g) == TRUE

\* mutant: no audio chunk is converted
NeedsWavNever(g) == FALSE

\* line 152: file_extension is None, the chunk takes the raw-PCM path
NeedsWav(g) == ~g.found

\* lines 151 to 152: the extension of the table, when the type has one
GuessKnown ==
    /\ pc = "guess"
    /\ chunk.parts[1].has_mime
    /\ ~NeedsWav(guess_extension(chunk.parts[1].mime_type))
    /\ file_extension' = guess_extension(chunk.parts[1].mime_type).ext
    /\ pc' = "save"
    /\ UNCHANGED <<parse_vars, wav_vars, api_key, pulled, chunk_count, file_index, file_name, data_buffer,
                   handed, converted, disk, writes, handles, out>>

\* lines 152 to 154: no extension: ".wav" and convert_to_wav, which may raise
GuessNone ==
    /\ pc = "guess"
    /\ chunk.parts[1].has_mime
    /\ NeedsWav(guess_extension(chunk.parts[1].mime_type))
    /\ file_extension' = DotWav
    /\ converted' = converted \cup {chunk_count}
    /\ LET r == convert_to_wav(chunk.parts[1].data, chunk.parts[1].mime_type)
       IN  IF r.ok
           THEN data_buffer' = r.bytes /\ pc' = "save"
           ELSE data_buffer' = data_buffer /\ pc' = "except"
    /\ UNCHANGED <<parse_vars, wav_vars, api_key, pulled, chunk_count, file_index, file_name, handed,
                   disk, writes, handles, out>>

\* ------------------------------------------------------- save_binary_file

\* f"{file_name}{file_extension}"
FullName == file_name \o file_extension

\* line 155 and line 14: the unit is handed to save_binary_file, open(…, "wb")
\* creates or truncates the file
OpenOk ==
    /\ pc = "save"
    /\ handed' = Append(handed, [name |-> FullName, data |-> data_buffer,
                                 src |-> chunk_count])
    /\ disk' = [n \in DOMAIN disk \cup {FullName} |-> IF n = FullName THEN <<>> ELSE disk[n]]
    /\ handles' = handles \cup {FullName}
    /\ pc' = "write"
    /\ UNCHANGED <<parse_vars, wav_vars, api_key, pulled, chunk_count, file_index, file_name, file_extension,
                   data_buffer, converted, writes, out>>

\* line 14: open raises OSError, no file and no handle
OpenFails ==
    /\ pc = "save"
    /\ handed' = Append(handed, [name |-> FullName, data |-> data_buffer,
                                 src |-> chunk_count])
    /\ pc' = "except"
    /\ UNCHANGED <<parse_vars, wav_vars, api_key, pulled, chunk_count, file_index, file_name, file_extension,
                   data_buffer, converted, disk, writes, handles, out>>

\* line 15: f.write(data) succeeds
WriteOk ==
    /\ pc = "write"
    /\ writes' = Append(writes, [name |-> FullName, data |-> data_buffer,
                                 ok |-> TRUE])
    /\ disk' = [disk EXCEPT ![FullName] = @ \o data_buffer]
    /\ pc' = "close"
    /\ UNCHANGED <<parse_vars, wav_vars, api_key, pulled, chunk_count, file_index, file_name, file_extension,
                   data_buffer, handed, converted, handles, out>>

\* line 15: f.write(data) raises OSError; line 16 is skipped, f stays open
WriteFails ==
    /\ pc = "write"
    /\ writes' = Append(writes, [name |-> FullName, data |-> data_buffer,
                                 ok |-> FALSE])
    /\ pc' = "except"
    /\ UNCHANGED <<parse_vars, wav_vars, api_key, pulled, chunk_count, file_index, file_name, file_extension,
                   data_buffer, handed, converted, disk, handles, out>>

\* lines 16 to 17: f.close() succeeds, "File saved to" is printed
CloseOk ==
    /\ pc = "close"
    /\ handles' = handles \ {FullName}
    /\ pc' = "loop"
    /\ Say(Line("saved", chunk_count, FullName))
    /\ UNCHANGED <<parse_vars, wav_vars, api_key, pulled, chunk_count, file_index, file_name, file_extension,
                   data_buffer, handed, converted, disk, writes>>

\* line 16: f.close() raises OSError from the flush; the handle is released all the
\* same, and the buffered bytes may or may not have reached the file
CloseFails ==
    /\ pc = "close"
    /\ handles' = handles \ {FullName}
    /\ \E kept \in BOOLEAN :
          disk' = IF kept THEN disk ELSE [disk EXCEPT ![FullName] = <<>>]
    /\ pc' = "except"
    /\ UNCHANGED <<parse_vars, wav_vars, api_key, pulled, chunk_count, file_index, file_name, file_extension,
                   data_buffer, handed, converted, writes, out>>

\* ------------------------------------------------------- the end of generate

\* mutant: the chunks are counted, not the files
NoAudioByChunkCount == chunk_count = 0

\* mutant: the success report is printed whatever the index
NoAudioNever == FALSE

\* line 162: if file_index == 0
NoAudioProduced == file_index = 0

\* lines 162 to 168: the stream is exhausted, the final report
Exhausted ==
    /\ AtLoopHead
    /\ IF NoAudioProduced
       THEN Say(Line("no_audio", 0, <<>>))
       ELSE Say(Line("success", file_index, <<>>))
    /\ pc' = "done"
    /\ UNCHANGED <<parse_vars, wav_vars, api_key, pulled, chunk_count, file_index, file_name, file_extension,
                   data_buffer, handed, converted, disk, writes, handles>>

\* lines 170 to 171: except Exception prints the error, generate ends
Except ==
    /\ pc = "except"
    /\ pc' = "error"
    /\ Say(Line("error", chunk_count, <<>>))
    /\ UNCHANGED <<parse_vars, wav_vars, api_key, pulled, chunk_count, file_index, file_name, file_extension,
                   data_buffer, handed, converted, disk, writes, handles>>

\* after generate has ended, the runtime may reclaim a file object left open
Finalize ==
    /\ pc = "error"
    /\ handles # {}
    /\ handles' = {}
    /\ UNCHANGED <<parse_vars, wav_vars, api_key, pc, pulled, chunk_count, file_index, file_name,
                   file_extension, data_buffer, handed, converted, disk, writes, out>>

Next ==
    \/ NoApiKey
    \/ StartRequest
    \/ Pull
    \/ NoContent
    \/ BadChunk
    \/ TakeAudio
    \/ TextOrNothing
    \/ GuessRaises
    \/ GuessKnown
    \/ GuessNone
    \/ OpenOk
    \/ OpenFails
    \/ WriteOk
    \/ WriteFails
    \/ CloseOk
    \/ CloseFails
    \/ Exhausted
    \/ Except
    \/ Finalize

Spec == Init /\ [][Next]_vars

\* --------------------------------------------------- generate called again

\* the most calls of generate in one run
MaxCalls == 2

\* the calls of generate so far: each prints line 24 or line 122
CallsMade ==
    Cardinality({i \in 1..Len(out) : out[i].kind \in {"no_api_key", "sending"}})

\* the lines of the calls that have ended which count the calls and their chunks
CountsCall(l) == l.kind \in {"no_api_key", "sending", "received"}

\* generate has returned and is called again: the locals of the new call are not
\* bound yet (file_index and chunk_count still show what the call before left),
\* the disk and the open handles stay; of the output of the calls that have ended
\* the lines that count calls and chunks are kept
CallAgain ==
    /\ pc \in {"done", "error", "returned"}
    /\ CallsMade < MaxCalls
    /\ pc' = "check_key"
    /\ pulled' = <<>>
    /\ handed' = <<>>
    /\ converted' = {}
    /\ writes' = <<>>
    /\ file_name' = <<>>
    /\ file_extension' = <<>>
    /\ data_buffer' = <<>>
    /\ out' = SelectSeq(out, CountsCall)
    /\ UNCHANGED <<parse_vars, wav_vars, api_key, chunk_count, file_index, disk, handles>>

NextCalls == Next \/ CallAgain

SpecCalls == Init /\ [][NextCalls]_vars

\* ------------------------------------- parse_audio_mime_type called on its own

\* the most parameters, separated by ";", of a MIME string handed to the parser
MaxTokens == 3

TokL16 == <<"a", "u", "d", "i", "o", "/", "L", "1", "6">>

TokL8 == <<"a", "u", "d", "i", "o", "/", "L", "8">>

TokLBad == <<"a", "u", "d", "i", "o", "/", "L", "x">>

TokLNone == <<"a", "u", "d", "i", "o", "/", "L">>

TokRate8000 == <<"r", "a", "t", "e", "=", "8", "0", "0", "0">>

TokRateUpper == <<" ", "R", "A", "T", "E", "=", "1", "6", "0", "0", "0", " ">>

TokRateBad == <<"r", "a", "t", "e", "=", "a", "b", "c">>

TokRateNone == <<"r", "a", "t", "e", "=">>

TokCodecs == <<"c", "o", "d", "e", "c", "s", "=", "1">>

\* the parameters the MIME strings are made of
Tokens ==
    {TokL16, TokL8, TokLBad, TokLNone, TokRate8000, TokRateUpper, TokRateBad,
     TokRateNone, TokCodecs, <<>>}

\* ";".join(ts)
RECURSIVE Join(_)
Join(ts) ==
    IF ts = <<>> THEN <<>>
    ELSE IF Len(ts) = 1 THEN ts[1]
    ELSE ts[1] \o <<";">> \o Join(Tail(ts))

TokenSeqs == UNION {[1..n -> Tokens] : n \in 0..MaxTokens}

\* the MIME strings handed to the parser
MimeInputs == {Join(ts) : ts \in TokenSeqs}

ParseInit ==
    /\ mime_arg \in MimeInputs
    /\ parse_pc = "call"
    /\ parse_result = NoResult
    /\ parse_log = <<>>
    /\ wav_data = <<>>
    /\ wav_mime = <<>>
    /\ wav_pc = "idle"
    /\ wav_result = <<>>
    /\ api_key = <<>>
    /\ pc = "idle"
    /\ pulled = <<>>
    /\ chunk_count = 0
    /\ file_index = 0
    /\ file_name = <<>>
    /\ file_extension = <<>>
    /\ data_buffer = <<>>
    /\ handed = <<>>
    /\ converted = {}
    /\ disk = <<>>
    /\ writes = <<>>
    /\ handles = {}
    /\ out = <<>>

\* the variables of generate
generate_vars == <<api_key, pc, pulled, chunk_count, file_index, file_name, file_extension,
                   data_buffer, handed, converted, disk, writes, handles, out>>

\* mutant: the values the call before returned are the defaults of this call
CallResultStale(prev, mime_type) ==
    ReturnedDict(ParseParams([bits_per_sample |-> prev.bits_per_sample,
                              rate |-> prev.rate, raised |-> FALSE],
                             Split(mime_type, ";")))

\* lines 225 and 226 bind the locals anew in every call and the module has no
\* global the function reads: what the call before returned (prev) is not used
CallResult(prev, mime_type) == parse_audio_mime_type(mime_type)

\* lines 213 to 245: parse_audio_mime_type(mime_arg) returns its dictionary, or an
\* exception leaves it
CallParse ==
    /\ parse_pc = "call"
    /\ IF parse_raises(mime_arg)
       THEN /\ parse_pc' = "raised"
            /\ UNCHANGED <<parse_result, parse_log>>
       ELSE /\ parse_pc' = "returned"
            /\ parse_result' = CallResult(parse_result, mime_arg)
            /\ parse_log' = Append(parse_log, [arg |-> mime_arg,
                                               result |-> CallResult(parse_result, mime_arg)])
    /\ UNCHANGED <<mime_arg, wav_vars, generate_vars>>

ParseNext == CallParse

ParseSpec == ParseInit /\ [][ParseNext]_vars

\* ------------------------------------ parse_audio_mime_type called several times

\* the most calls of parse_audio_mime_type in one run
MaxParseCalls == 3

\* the MIME strings of the repeated calls
MimesAgain ==
    {<<>>, TokL8, TokRateUpper, Join(<<TokL16, TokRate8000>>), Join(<<TokLBad, TokRateBad>>)}

ParseCallsInit == ParseInit /\ mime_arg \in MimesAgain

\* the function has returned and is called again, on any of the strings
ParseAgain ==
    /\ parse_pc \in {"returned", "raised"}
    /\ Len(parse_log) < MaxParseCalls
    /\ mime_arg' \in MimesAgain
    /\ parse_pc' = "call"
    /\ UNCHANGED <<parse_result, parse_log, wav_vars, generate_vars>>

ParseCallsNext == CallParse \/ ParseAgain

ParseCallsSpec == ParseCallsInit /\ [][ParseCallsNext]_vars

\* ---------------------------------------------- convert_to_wav called on its own

\* the most bytes of the audio_data handed to convert_to_wav
MaxData == 3

\* the byte values the audio_data is made of
DataBytes == {0, 1, 255}

AudioDatas == UNION {[1..n -> DataBytes] : n \in 0..MaxData}

WavL8 == <<"a", "u", "d", "i", "o", "/", "L", "8">>

WavL12 == <<"a", "u", "d", "i", "o", "/", "L", "1", "2", ";", "r", "a", "t", "e", "=", "8", "0", "0", "0">>

WavL24 == <<"a", "u", "d", "i", "o", "/", "L", "2", "4", ";", "r", "a", "t", "e", "=", "4", "8", "0", "0", "0">>

WavL7 == <<"a", "u", "d", "i", "o", "/", "L", "7">>

WavBitsBig == <<"a", "u", "d", "i", "o", "/", "L", "7", "0", "0", "0", "0">>

WavBitsNeg == <<"a", "u", "d", "i", "o", "/", "L", "-", "8">>

WavRateMax == <<"a", "u", "d", "i", "o", "/", "L", "8", ";", "r", "a", "t", "e", "=", "4", "2", "9", "4", "9", "6", "7", "2", "9", "5">>

WavRateOver == <<"a", "u", "d", "i", "o", "/", "L", "8", ";", "r", "a", "t", "e", "=", "4", "2", "9", "4", "9", "6", "7", "2", "9", "6">>

WavByteRateOver == <<"a", "u", "d", "i", "o", "/", "L", "1", "6", ";", "r", "a", "t", "e", "=", "4", "2", "9", "4", "9", "6", "7", "2", "9", "5">>

\* the MIME strings handed to convert_to_wav
WavMimes ==
    {MimeEmpty, MimeL16, MimeNegRate, WavL8, WavL12, WavL24, WavL7,
     WavBitsBig, WavBitsNeg, WavRateMax, WavRateOver, WavByteRateOver}

WavInit ==
    /\ wav_data \in AudioDatas
    /\ wav_mime \in WavMimes
    /\ wav_pc = "call"
    /\ wav_result = <<>>
    /\ mime_arg = <<>>
    /\ parse_pc = "idle"
    /\ parse_result = NoResult
    /\ parse_log = <<>>
    /\ api_key = <<>>
    /\ pc = "idle"
    /\ pulled = <<>>
    /\ chunk_count = 0
    /\ file_index = 0
    /\ file_name = <<>>
    /\ file_extension = <<>>
    /\ data_buffer = <<>>
    /\ handed = <<>>
    /\ converted = {}
    /\ disk = <<>>
    /\ writes = <<>>
    /\ handles = {}
    /\ out = <<>>

\* lines 173 to 211: convert_to_wav(wav_data, wav_mime) returns header + audio_data,
\* or struct.error leaves it
CallConvert ==
    /\ wav_pc = "call"
    /\ IF convert_to_wav(wav_data, wav_mime).ok
       THEN /\ wav_pc' = "returned"
            /\ wav_result' = convert_to_wav(wav_data, wav_mime).bytes
       ELSE /\ wav_pc' = "raised"
            /\ wav_result' = wav_result
    /\ UNCHANGED <<wav_data, wav_mime, parse_vars, generate_vars>>

WavNext == CallConvert

WavSpec == WavInit /\ [][WavNext]_vars

\* ------------------------------------------------------------------ claims

\* the lines of kind k printed so far
LinesOf(k) == {i \in 1..Len(out) : out[i].kind = k}

\* the units save_binary_file reported as saved
SavedCount == Cardinality(LinesOf("saved"))

\* the name of a unit is built from the index i
NameHasIndex(name, i) == \E e \in {DotWav, DotMp3} : name = FileNameFor(i) \o e

\* C1: within one call the indices of the units handed to the sink, in the order
\* they are handed over, are exactly 0, 1, ..., k-1.
C1_IndicesContiguous ==
    \A k \in 1..Len(handed) : NameHasIndex(handed[k].name, k - 1)

\* C1 witness: three units were emitted from a stream
C1_Witness == Len(handed) >= 3

\* the audio-bearing chunks among the chunks pulled so far
AudioChunks == {i \in 1..Len(pulled) : IsAudio(pulled[i])}

\* C2: one unit is handed to the sink for every chunk classified as audio-bearing
\* and none for any other chunk: whenever the loop is between chunks or has ended,
\* the units handed over are as many as the audio-bearing chunks pulled.
C2_OneUnitPerAudioChunk ==
    pc \in {"loop", "done", "error"} => Len(handed) = Cardinality(AudioChunks)

\* a unit was handed to save_binary_file and the call raised
SinkFailed == pc \in {"except", "error"} /\ Len(handed) > SavedCount

\* C3: a sink failure is reported for its unit only and does not halt the stream:
\* generate never ends in its exception handler because a save failed.
C3_SinkFailureDoesNotHalt == SinkFailed => pc # "error"

\* the MIME type of an audio chunk has no extension in the table (None included)
NoKnownExtension(c) ==
    ~c.parts[1].has_mime \/ ~guess_extension(c.parts[1].mime_type).found

EndsWith(s, e) == Len(s) >= Len(e) /\ SubSeq(s, Len(s) - Len(e) + 1, Len(s)) = e

\* C4: a malformed or absent MIME type never aborts an audio-bearing chunk: every
\* such chunk that has left the guess and convert steps was handed to the sink as a
\* .wav unit.
C4_MimeNeverAborts ==
    \A i \in AudioChunks :
        (NoKnownExtension(pulled[i]) /\ (i < Len(pulled) \/ pc \notin {"inspect", "guess"}))
        => \E k \in 1..Len(handed) :
               handed[k].src = i /\ EndsWith(handed[k].name, DotWav)

\* C5: the handle save_binary_file opened is released on every exit path: outside
\* save_binary_file no file handle is open.
C5_HandleReleased == pc \notin {"write", "close"} => handles = {}

\* the inline data of the first part of chunk number i
PartOf(i) == pulled[i].parts[1]

\* the f.write calls made for the file name
WritesTo(name) == {j \in 1..Len(writes) : writes[j].name = name}

\* C6: a synthesized unit reaches the sink as one buffer, the 44-byte header
\* immediately followed by the data, and is written with a single write: its file
\* never holds a header without the data, nor data without the header.
C6_HeaderWithData ==
    \A k \in 1..Len(handed) :
        handed[k].src \in converted =>
            LET u == handed[k]
                d == PartOf(u.src).data
            IN  /\ Len(u.data) = HeaderLen + Len(d)
                /\ SubSeq(u.data, 1, 4) = RIFF
                /\ SubSeq(u.data, HeaderLen + 1, Len(u.data)) = d
                /\ Cardinality(WritesTo(u.name)) <= 1
                /\ \A j \in WritesTo(u.name) : writes[j].data = u.data
                /\ u.name \in DOMAIN disk => disk[u.name] \in {<<>>, u.data}

\* C6 witness: generate ended in its exception handler with one synthesized unit
\* written whole and another whose write failed
C6_Witness ==
    /\ pc = "error"
    /\ \E k \in 1..Len(handed) :
          /\ handed[k].src \in converted
          /\ handed[k].name \in DOMAIN disk
          /\ disk[handed[k].name] = handed[k].data
    /\ \E j \in 1..Len(writes) : ~writes[j].ok /\ disk[writes[j].name] = <<>>

\* chunk number i was classified and printed as a chunk without audio
ReportedOther(i) ==
    \E j \in 1..Len(out) :
        out[j].n = i /\ out[j].kind \in {"no_content", "text", "no_audio_or_text"}

\* the unit of chunk number i was handed to the sink and reported saved
SavedUnitOf(i) ==
    /\ \E k \in 1..Len(handed) : handed[k].src = i
    /\ \E j \in LinesOf("saved") : out[j].n = i

\* C7: chunks are processed one at a time in stream order: when a chunk has been
\* pulled, every chunk before it has been processed to the end (classified and, if
\* audio-bearing, handed to the sink and saved), and units are emitted in the
\* order of their chunks.
C7_OneAtATime ==
    /\ \A i \in 1..(Len(pulled) - 1) :
          IF IsAudio(pulled[i]) THEN SavedUnitOf(i) ELSE ReportedOther(i)
    /\ \A k1, k2 \in 1..Len(handed) : k1 < k2 => handed[k1].src < handed[k2].src

\* C7 witness: a third chunk is pulled after two units were emitted
C7_Witness == Len(pulled) = 3 /\ pc = "inspect" /\ Len(handed) = 2

\* the chunk is empty, has no payload, or carries only text
NoPayload(c) ==
    \/ c.candidates = "None"
    \/ c.candidates = "list" /\ ~c.has_parts
    \/ /\ c.candidates = "list" /\ c.has_parts /\ c.parts # <<>>
       /\ \A j \in 1..Len(c.parts) : ~(c.parts[j].has_inline /\ c.parts[j].data # <<>>)

KnownExtension(i) ==
    PartOf(i).has_mime /\ guess_extension(PartOf(i).mime_type).found

\* C9: for an audio-bearing chunk whose MIME type maps to a known extension the
\* unit's bytes are the chunk's bytes, its extension is the mapped one, and
\* convert_to_wav is not called.
C9_KnownExtensionPassthrough ==
    \A k \in 1..Len(handed) :
        KnownExtension(handed[k].src) =>
            /\ handed[k].data = PartOf(handed[k].src).data
            /\ handed[k].name =
                  FileNameFor(k - 1) \o guess_extension(PartOf(handed[k].src).mime_type).ext
            /\ handed[k].src \notin converted

\* C9 witness: a unit of type audio/mpeg and a unit of type AUDIO/X-WAV were emitted
C9_Witness ==
    /\ \E k \in 1..Len(handed) :
          PartOf(handed[k].src).mime_type = MimeMpeg /\ EndsWith(handed[k].name, DotMp3)
    /\ \E k \in 1..Len(handed) :
          PartOf(handed[k].src).mime_type = MimeXWavUpper /\ EndsWith(handed[k].name, DotWav)

\* C10: for an audio-bearing chunk whose MIME type maps to no known extension the
\* unit has the extension .wav and its bytes are convert_to_wav of the chunk's
\* bytes and MIME type: the header packed from the parsed parameters, then the data.
C10_UnknownExtensionSynthesized ==
    \A k \in 1..Len(handed) :
        (PartOf(handed[k].src).has_mime /\ ~KnownExtension(handed[k].src)) =>
            LET c == PartOf(handed[k].src)
                w == convert_to_wav(c.data, c.mime_type)
            IN  /\ handed[k].name = FileNameFor(k - 1) \o DotWav
                /\ handed[k].src \in converted
                /\ w.ok
                /\ handed[k].data = w.bytes
                /\ handed[k].data = PackHeader(WavFields(c.data, c.mime_type)) \o c.data

\* C10 witness: the chunk b"\x01" of type audio/L16;rate=16000 was emitted with the
\* sample rate 16000 at offset 24 of its header
C10_Witness ==
    \E k \in 1..Len(handed) :
        /\ PartOf(handed[k].src).mime_type = MimeL16
        /\ Len(handed[k].data) = 45
        /\ SubSeq(handed[k].data, 25, 28) = <<128, 62, 0, 0>>

\* C11: after the stream is exhausted the "no audio" report is printed if and only
\* if the index is still 0; a stream of text and empty chunks alone yields no unit
\* and ends with that report; the report is no error (the handler is not entered).
C11_NoAudioReport ==
    pc = "done" =>
        /\ (LinesOf("no_audio") # {}) <=> (file_index = 0)
        /\ (LinesOf("success") # {}) <=> (file_index # 0)
        /\ Cardinality(LinesOf("no_audio") \cup LinesOf("success")) = 1
        /\ (\A i \in 1..Len(pulled) : NoPayload(pulled[i])) =>
              handed = <<>> /\ out[Len(out)].kind = "no_audio"
        /\ LinesOf("error") = {}

\* C11 witness: a stream of three chunks without audio, text among them, has ended
C11_Witness ==
    /\ pc = "done" /\ Len(pulled) = 3
    /\ \A i \in 1..Len(pulled) : NoPayload(pulled[i])
    /\ LinesOf("text") # {}
    /\ LinesOf("no_audio") # {}

\* the name is the base name, the decimal digits of k and one of the extensions
IsPartName(name, k) ==
    \E e \in {DotWav, DotMp3} :
        /\ StartsWith(name, BaseName) /\ EndsWith(name, e)
        /\ LET digits == SubSeq(name, Len(BaseName) + 1, Len(name) - Len(e))
           IN  /\ digits # <<>>
               /\ \A i \in 1..Len(digits) : IsDigit(digits[i])
               /\ PyInt(digits).val = IntOf(k)

\* C12: the k-th unit of a call (k from 0) is written under the name
\* <base_name>_part_<k>.<extension>; no two units of the call have the same name
\* and no unit overwrites the file of an earlier one.
C12_UnitNames ==
    /\ \A k \in 1..Len(handed) : IsPartName(handed[k].name, k - 1)
    /\ \A k1, k2 \in 1..Len(handed) : k1 # k2 => handed[k1].name # handed[k2].name
    /\ \A k \in 1..(Len(handed) - 1) : disk[handed[k].name] = handed[k].data

\* C12 witness: three units were written, the files of all three are on the disk
C12_Witness == Len(handed) = 3 /\ pc = "loop" /\ Cardinality(DOMAIN disk) = 3

\* the audio-bearing chunks of this call that have taken their index
AudioTaken == {i \in AudioChunks : i < Len(pulled) \/ pc # "inspect"}

\* C13: the index is local to one call: a call starts with index 0 whatever the
\* calls before emitted, and within the call the index is never reset or decreased:
\* it is the number of audio-bearing chunks the call has taken so far.
C13_IndexLocalToCall ==
    pc \notin {"check_key", "returned"} => file_index = Cardinality(AudioTaken)

\* C13 witness: a second call emits its first unit after a first call that emitted
\* units
C13_Witness ==
    /\ CallsMade = 2
    /\ Cardinality(DOMAIN disk) = 2
    /\ Len(handed) = 1 /\ file_index = 1 /\ pc = "loop"

\* s is a prefix of t
IsPrefix(s, t) == Len(s) <= Len(t) /\ SubSeq(t, 1, Len(s)) = s

\* the files of the units before the last one handed over
EarlierFiles == {handed[k].name : k \in 1..(Len(handed) - 1)}

\* C14: the output of a prefix of the stream is a prefix of the output: the stream
\* may end at any loop head, and ending there leaves the units emitted so far
\* (names with their indices, bytes handed over, bytes on the disk) as they are;
\* going on with a longer stream only appends units after them and leaves the
\* files of the earlier units untouched.
C14_PrefixOfOutput ==
    [][/\ IsPrefix(handed, handed')
       /\ \A n \in EarlierFiles : n \in DOMAIN disk' /\ disk'[n] = disk[n]
       /\ (AtLoopHead /\ pc' = "done") =>
              /\ handed' = handed /\ disk' = disk
              /\ file_index' = file_index /\ pulled' = pulled]_vars

\* C14 witness: the stream ended after one chunk whose unit is on the disk, where
\* a longer stream would have gone on
C14_Witness ==
    /\ pc = "done" /\ Len(pulled) = 1 /\ Len(pulled) < MaxFrags
    /\ Len(handed) = 1
    /\ disk[handed[1].name] = handed[1].data /\ handed[1].data # <<>>

\* the final report of lines 162 to 168 was printed
FinalReports == LinesOf("no_audio") \cup LinesOf("success")

\* C15: the call on a finite stream ends with every chunk consumed exactly once
\* and the final report reached: when generate has ended after sending the
\* request, each chunk pulled was received once, in order, and exactly one final
\* report was printed, as the last line.
C15_FinalReportReached ==
    pc \in {"done", "error"} =>
        /\ Received = Len(pulled)
        /\ \A i \in 1..Len(pulled) : \E j \in LinesOf("received") : out[j].n = i
        /\ Cardinality(FinalReports) = 1
        /\ Len(out) \in FinalReports

\* v is an int: a sign and the digits of a magnitude without leading zeros
IsPyInt(v) ==
    /\ DOMAIN v = {"neg", "mag"}
    /\ v.neg \in BOOLEAN
    /\ \A i \in 1..Len(v.mag) : v.mag[i] \in 0..(Base - 1)
    /\ Trim(v.mag) = v.mag
    /\ v.neg => v.mag # <<>>

\* the dictionary of the defaults
Defaults == [bits_per_sample |-> IntOf(DefaultBits), rate |-> IntOf(DefaultRate)]

Params == Split(mime_arg, ";")

\* the rate parameters with an integer value, and that value
ValidRateTokens == {TokRate8000, TokRateUpper}

RateN(tok) == IF tok = TokRate8000 THEN IntOf(8000) ELSE IntOf(16000)

\* the positions of the valid rate parameters in the string
ValidRates == {i \in 1..Len(Params) : Params[i] \in ValidRateTokens}

\* the greatest element of a non-empty set of positions
Last(S) == CHOOSE i \in S : \A j \in S : j <= i

\* C17 as stated: whenever the string contains a valid rate=N the rate returned is
\* N, and a string without a valid rate parameter (malformed or missing) yields
\* 24000.
C17_RateOfAnyToken ==
    parse_pc = "returned" =>
        /\ \A i \in ValidRates : parse_result.rate = RateN(Params[i])
        /\ ValidRates = {} => parse_result.rate = IntOf(DefaultRate)

\* C17, amended: the rate returned is the N of the last valid rate=N of the
\* string, whatever stands before or after it, and 24000 when the string has no
\* valid rate parameter (none at all, or malformed ones only).
C17_LastValidRate ==
    parse_pc = "returned" =>
        parse_result.rate =
            IF ValidRates = {} THEN IntOf(DefaultRate) ELSE RateN(Params[Last(ValidRates)])

\* C17 witness: two valid rates with different values and then a malformed one;
\* the second valid one is returned
C17_Witness ==
    /\ parse_pc = "returned"
    /\ mime_arg = Join(<<TokRate8000, TokRateUpper, TokRateBad>>)
    /\ parse_result.rate = IntOf(16000)

\* the audio/L parameters with an integer after the L, and that integer
ValidBitsTokens == {TokL16, TokL8}

BitsN(tok) == IF tok = TokL8 THEN IntOf(8) ELSE IntOf(16)

\* the positions of the valid audio/L parameters in the string
ValidBits == {i \in 1..Len(Params) : Params[i] \in ValidBitsTokens}

\* C18 as stated: whenever the string contains audio/L<N> with an integer N,
\* bits_per_sample is N; in every other case (no such parameter, or no integer
\* after the L) it is 16.
C18_BitsOfAnyToken ==
    parse_pc = "returned" =>
        /\ \A i \in ValidBits : parse_result.bits_per_sample = BitsN(Params[i])
        /\ ValidBits = {} => parse_result.bits_per_sample = IntOf(DefaultBits)

\* C18, amended: bits_per_sample is the N of the last audio/L<N> with an integer N
\* in the string, and 16 when the string has no such parameter (none at all, or
\* none with an integer after the L).
C18_LastValidBits ==
    parse_pc = "returned" =>
        parse_result.bits_per_sample =
            IF ValidBits = {} THEN IntOf(DefaultBits) ELSE BitsN(Params[Last(ValidBits)])

\* C18 witness: audio/L8 after audio/L16 and a malformed audio/Lx after both; the 8
\* is returned
C18_Witness ==
    /\ parse_pc = "returned"
    /\ mime_arg = Join(<<TokL16, TokL8, TokLBad>>)
    /\ parse_result.bits_per_sample = IntOf(8)

\* the rate and audio/L parameters without an integer value
MalformedTokens == {TokRateBad, TokRateNone, TokLBad, TokLNone}

WellFormed(tok) == tok \notin MalformedTokens

\* C19: malformed parameters degrade field by field: a string with malformed
\* rate= or audio/L parameters is parsed to the end and gives what the string
\* without them gives, so no malformed parameter changes the other field or its
\* own, and each field takes the value of its well-formed parameter wherever that
\* stands.
C19_FieldByField ==
    (parse_pc # "call" /\ \E i \in 1..Len(Params) : ~WellFormed(Params[i])) =>
        /\ parse_pc = "returned"
        /\ parse_result = parse_audio_mime_type(Join(SelectSeq(Params, WellFormed)))
        /\ (ValidBits # {}) => parse_result.bits_per_sample = BitsN(Params[Last(ValidBits)])
        /\ (ValidRates # {}) => parse_result.rate = RateN(Params[Last(ValidRates)])

\* C19 witness: a malformed rate first, audio/L8 after it, a malformed audio/L
\* last: 8 bits, the default rate
C19_Witness ==
    /\ parse_pc = "returned"
    /\ mime_arg = Join(<<TokRateBad, TokL8, TokLNone>>)
    /\ parse_result = [bits_per_sample |-> IntOf(8), rate |-> IntOf(DefaultRate)]

\* the permutations of the positions of the parameters
Perms == {f \in [1..Len(Params) -> 1..Len(Params)] :
             \A i, j \in 1..Len(Params) : f[i] = f[j] => i = j}

\* the string of the parameters in the order f
Permuted(f) == Join([i \in 1..Len(Params) |-> Params[f[i]]])

\* every order of the parameters is parsed to the result returned
SameInEveryOrder == \A f \in Perms : parse_audio_mime_type(Permuted(f)) = parse_result

\* the valid parameters of each key agree on its value
OneValuePerKey ==
    /\ Cardinality({RateN(Params[i]) : i \in ValidRates}) <= 1
    /\ Cardinality({BitsN(Params[i]) : i \in ValidBits}) <= 1

\* C20 as stated: for every MIME string, any permutation of its parameters gives
\* the same result.
C20_AnyOrder == parse_pc = "returned" => SameInEveryOrder

\* C20, amended: when the valid parameters of each key agree on its value (at most
\* one valid rate and one valid audio/L, or repetitions of the same value), any
\* permutation of the parameters gives the same result; when they disagree, the
\* result is that of the last valid parameter of each key, so the order matters.
C20_OrderOfDistinctKeys ==
    parse_pc = "returned" =>
        /\ OneValuePerKey => SameInEveryOrder
        /\ ~OneValuePerKey => ~SameInEveryOrder

\* C20 witness: a rate, a malformed audio/L and a valid audio/L, parsed to the
\* same result in all six orders
C20_Witness ==
    /\ parse_pc = "returned"
    /\ mime_arg = Join(<<TokRateUpper, TokLBad, TokL8>>)
    /\ Cardinality(Perms) = 6
    /\ parse_result = [bits_per_sample |-> IntOf(8), rate |-> IntOf(16000)]

\* the positions of the malformed parameters of the rate and of audio/L
MalformedRates == {i \in 1..Len(Params) : Params[i] \in {TokRateBad, TokRateNone}}

MalformedBits == {i \in 1..Len(Params) : Params[i] \in {TokLBad, TokLNone}}

\* C21: when a key occurs several times the last well-formed occurrence wins: a
\* valid rate= after which no valid rate= stands gives the rate, a valid audio/L
\* after which no valid audio/L stands gives bits_per_sample, and malformed
\* occurrences after it keep the value it set.
C21_LastWellFormedWins ==
    parse_pc = "returned" =>
        /\ \A i \in ValidRates :
              (\A j \in ValidRates : j <= i) => parse_result.rate = RateN(Params[i])
        /\ \A i \in ValidBits :
              (\A j \in ValidBits : j <= i) =>
                  parse_result.bits_per_sample = BitsN(Params[i])

\* C21 witness: two valid rates of different values, then a malformed one: the
\* value of the second valid one is kept
C21_Witness ==
    /\ parse_pc = "returned"
    /\ mime_arg = Join(<<TokRateUpper, TokRate8000, TokRateNone>>)
    /\ Cardinality(ValidRates) = 2 /\ MalformedRates = {3}
    /\ parse_result.rate = IntOf(8000)

C23_LengthAndPayload ==
    wav_pc = "returned" =>
        /\ Len(wav_result) = HeaderLen + Len(wav_data)
        /\ \A i \in 1..Len(wav_data) : wav_result[HeaderLen + i] = wav_data[i]

\* C23 witness: three different bytes under parameters that are not the defaults
C23_Witness ==
    /\ wav_pc = "returned"
    /\ wav_data = <<255, 0, 1>> /\ wav_mime = WavL12
    /\ Len(wav_result) = 47
    /\ SubSeq(wav_result, 45, 47) = <<255, 0, 1>>

\* the unsigned little-endian number in the w bytes at offset o of the bytes
\* returned
FieldAt(o, w) == MkInt(FALSE, SubSeq(wav_result, o + 1, o + w))

\* C24: in the bytes returned the ChunkSize field (offset 4) is 36 + len(audio_data)
\* and the Subchunk2Size field (offset 40) is len(audio_data), for data of any
\* length, zero included: empty data gives 44 bytes with ChunkSize 36 and
\* Subchunk2Size 0.
C24_SizeFields ==
    wav_pc = "returned" =>
        /\ FieldAt(4, IBytes) = IntOf(36 + Len(wav_data))
        /\ FieldAt(40, IBytes) = IntOf(Len(wav_data))
        /\ wav_data = <<>> =>
              /\ Len(wav_result) = 44
              /\ SubSeq(wav_result, 5, 8) = <<36, 0, 0, 0>>
              /\ SubSeq(wav_result, 41, 44) = <<0, 0, 0, 0>>

\* C24 witness: empty data under the default parameters
C24_Witness ==
    /\ wav_pc = "returned"
    /\ wav_data = <<>> /\ wav_mime = MimeEmpty
    /\ Len(wav_result) = 44
    /\ FieldAt(4, IBytes) = IntOf(36)

\* the unsigned 16-bit number at offset o of the bytes returned
U16At(o) == wav_result[o + 1] + Base * wav_result[o + 2]

\* C25: the format fields of the header are derived as specified: NumChannels
\* (offset 22) is 1 whatever the MIME type says; BlockAlign (offset 32) is
\* bits_per_sample divided by 8 and rounded down, also when bits_per_sample is no
\* multiple of 8; ByteRate (offset 28) is SampleRate * BlockAlign; SampleRate (offset
\* 24) and BitsPerSample (offset 34) are the parsed parameters.
C25_FormatFields ==
    wav_pc = "returned" =>
        /\ U16At(22) = 1
        /\ 8 * U16At(32) <= U16At(34) /\ U16At(34) < 8 * U16At(32) + 8
        /\ FieldAt(28, IBytes) = IntMul(FieldAt(24, IBytes), FieldAt(32, HBytes))
        /\ FieldAt(24, IBytes) = parse_audio_mime_type(wav_mime).rate
        /\ FieldAt(34, HBytes) = parse_audio_mime_type(wav_mime).bits_per_sample

\* C25 witness: 12 bits and 8000 Hz give BlockAlign 1 and ByteRate 8000
C25_Witness ==
    /\ wav_pc = "returned" /\ wav_mime = WavL12
    /\ U16At(34) = 12 /\ U16At(32) = 1 /\ U16At(22) = 1
    /\ SubSeq(wav_result, 25, 28) = <<64, 31, 0, 0>>
    /\ SubSeq(wav_result, 29, 32) = <<64, 31, 0, 0>>

\* C26: convert_to_wav always succeeds: for every byte buffer and every MIME
\* string, whatever parameters parse_audio_mime_type returns for it, bytes are
\* returned and nothing is raised.
C26_AlwaysSucceeds == wav_pc # "raised"

\* C27: in every state of the loop the number s of units the sink has written and
\* the index satisfy s <= file_index <= s + 1: the index is moved on before the
\* unit is saved, so when converting or saving fails the index is used up and no
\* unit of that index exists.
C27_IndexAheadByAtMostOne ==
    pc \notin {"check_key", "returned"} =>
        /\ SavedCount <= file_index
        /\ file_index <= SavedCount + 1
        /\ pc = "loop" => file_index = SavedCount

\* C27 witness: the second audio chunk failed before it was handed to the sink:
\* the index is 2, one unit was written and no file has the index 1
C27_Witness ==
    /\ pc = "error"
    /\ file_index = 2 /\ SavedCount = 1 /\ Len(handed) = 1
    /\ \A n \in DOMAIN disk : ~NameHasIndex(n, 1)

\* C28: when the loop ends without an exception exactly one terminal report is
\* printed: the "no audio" report when file_index is 0, otherwise the success
\* report, whose count is the number of units written; when an exception leaves
\* the loop neither of them is printed, the error alone is reported.
C28_TerminalReport ==
    /\ pc = "done" =>
          /\ Cardinality(FinalReports) = 1
          /\ LinesOf("error") = {}
          /\ IF file_index = 0
             THEN out[Len(out)].kind = "no_audio" /\ SavedCount = 0
             ELSE /\ out[Len(out)].kind = "success"
                  /\ out[Len(out)].n = SavedCount
                  /\ out[Len(out)].n = Cardinality(DOMAIN disk)
    /\ pc \in {"except", "error"} => FinalReports = {}
    /\ pc = "error" =>
          /\ Cardinality(LinesOf("error")) = 1
          /\ out[Len(out)].kind = "error"

\* C28 witness: a stream of two audio chunks and a text chunk has ended with the
\* success report of two units
C28_Witness ==
    /\ pc = "done" /\ Len(pulled) = 3
    /\ out[Len(out)] = Line("success", 2, <<>>)
    /\ SavedCount = 2 /\ LinesOf("text") # {}

\* the first part of the chunk carries inline data of at least one byte
FirstPartHasBytes(c) ==
    /\ c.candidates = "list" /\ c.has_parts /\ c.parts # <<>>
    /\ c.parts[1].has_inline /\ Len(c.parts[1].data) > 0

\* the first part of the chunk carries inline data of no byte
FirstPartEmptyInline(c) ==
    /\ c.candidates = "list" /\ c.has_parts /\ c.parts # <<>>
    /\ c.parts[1].has_inline /\ c.parts[1].data = <<>>

\* C29: a chunk is taken as audio from its first part alone and only when the
\* inline data of that part is not empty: the step that inspects a chunk moves the
\* index on exactly then; inline data of length zero emits no unit and leaves the
\* index; a chunk with non-empty inline data and text is taken as audio and its
\* text is not printed; every converted output handed to the sink is longer than
\* 44 bytes.
C29_AudioFromFirstPart ==
    [][/\ pc = "inspect" =>
             /\ (file_index' = file_index + 1) <=> FirstPartHasBytes(chunk)
             /\ (file_index' = file_index) <=> ~FirstPartHasBytes(chunk)
             /\ FirstPartEmptyInline(chunk) =>
                    handed' = handed /\ disk' = disk /\ pc' = "loop"
             /\ (FirstPartHasBytes(chunk) /\ PartsText(chunk.parts) # <<>>) =>
                    /\ Len(out') = Len(out) + 1 /\ out'[Len(out')].kind = "audio"
                    /\ pc' = "guess"
       /\ \A k \in 1..Len(handed') :
             /\ handed'[k].src \in converted' => Len(handed'[k].data) > HeaderLen
             /\ FirstPartHasBytes(pulled'[handed'[k].src])
             /\ handed'[k].src \in AudioChunks
       /\ \A i \in LinesOf("text") : ~FirstPartHasBytes(pulled[out[i].n])]_vars

\* C29 witness: a chunk with inline data of length zero and a chunk with audio and
\* text were processed: one unit, no text printed
C29_Witness ==
    /\ pc = "loop" /\ Len(pulled) = 2
    /\ pulled[1] = Chunk(<<AudioPart(<<>>, MimeL16)>>)
    /\ pulled[2] = Chunk(<<AudioPart(<<9>>, MimeL16), TextPart(Hi)>>)
    /\ file_index = 1 /\ Len(handed) = 1 /\ Len(handed[1].data) = 45
    /\ LinesOf("text") = {}

\* C30: with GEMINI_API_KEY absent or empty generate returns before the request:
\* no chunk is pulled, no file is written, file_index is never bound and neither
\* the "no audio" nor the success report is printed.
C30_NoKeyNoRequest ==
    api_key = <<>> =>
        /\ pc \in {"check_key", "returned"}
        /\ pulled = <<>> /\ handed = <<>> /\ writes = <<>>
        /\ disk = <<>> /\ handles = {}
        /\ file_index = 0 /\ chunk_count = 0
        /\ LinesOf("sending") = {} /\ LinesOf("received") = {}
        /\ FinalReports = {} /\ LinesOf("error") = {}
        /\ pc = "returned" => out = <<Line("no_api_key", 0, <<>>)>>

\* C30 witness: generate has returned on the missing key
C30_Witness ==
    /\ api_key = <<>> /\ pc = "returned"
    /\ out = <<Line("no_api_key", 0, <<>>)>>

====
